---------------------------- MODULE Spec2Model ----------------------------
(***************************************************************************)
(* Interrupt management support for the IA-32 architecture (intconnect.c): *)
(* the vector allocation bitfield _VectorsAllocated[] with _IntVecAlloc(), *)
(* _IntVecMarkAllocated() and _IntVecMarkFree(), the IDT writer            *)
(* _IntVecSet(), and the stub synthesizer irq_connect().                   *)
(*                                                                         *)
(* Every routine is modelled at the granularity of its statements, so that *)
(* tasks can preempt one another wherever interrupts are not locked.       *)
(* The build options (DEBUG, CONFIG_BOI_HANDLER_SUPPORTED,                 *)
(* CONFIG_EOI_HANDLER_SUPPORTED, CONFIG_IDT_NUM_VECTORS) are fixed when a  *)
(* behaviour starts.                                                       *)
(*                                                                         *)
(* Data representation.  A 32-bit word of _VectorsAllocated[] is the set   *)
(* of the positions (0..31) of its set bits.  Other unsigned 32-bit values *)
(* are carried as their two's-complement int: 0xFFFFFFFF is written -1.    *)
(***************************************************************************)
EXTENDS Integers, Sequences, FiniteSets, TLC

(***************************************************************************)
(* Configuration and input domains                                         *)
(***************************************************************************)

\* Kconfig: the number of IDT vectors, fixed when a behaviour starts.
VARIABLE CONFIG_IDT_NUM_VECTORS

\* The number of IDT vectors of the configuration that is modelled unless
\* a specification says otherwise.
IdtSizes == {64}

\* VEC_ALLOC_NUM_INTS without the rounding up to a multiple of 32.
VEC_ALLOC_NUM_INTS_RoundDown == CONFIG_IDT_NUM_VECTORS \div 32

\* #define VEC_ALLOC_NUM_INTS ((CONFIG_IDT_NUM_VECTORS + 31) & ~31) / 32
VEC_ALLOC_NUM_INTS == (((CONFIG_IDT_NUM_VECTORS + 31) \div 32) * 32) \div 32

BitPositions == 0..31

\* The tasks (or fibers) that may call into this module.
Tasks == {1, 2}
NoTask == 0

\* Priorities requested of _IntVecAlloc().  Vectors 0 to 31 are reserved by
\* the architecture, so user priorities start at 2; 4 is out of range here.
AllocPriorities == {2, 3, 4}

\* Vectors the board code reserves or releases by hand.
MarkVectors == {31, 62}

Min(S) == CHOOSE x \in S : \A y \in S : x <= y
Max(S) == CHOOSE x \in S : \A y \in S : x >= y

(***************************************************************************)
(* Primitives of the nanokernel used by this module                        *)
(***************************************************************************)

\* find_first_set(): position (1..32) of the least significant set bit,
\* or 0 if the argument is zero.
find_first_set(w) == IF w = {} THEN 0 ELSE Min(w) + 1

\* find_last_set(): position (1..32) of the most significant set bit,
\* or 0 if the argument is zero.
find_last_set(w) == IF w = {} THEN 0 ELSE Max(w) + 1

\* The possible values of the C expression (1 << n), as the set of bits of
\* the result.  n is an unsigned int; a count of 32 or more (here
\* 0xFFFFFFFF, carried as -1) is undefined: the IA-32 shl instruction masks
\* the count to five bits, a constant-folding compiler may yield 0.
ShiftOne(n) == IF n \in BitPositions THEN {{n}} ELSE {{n % 32}, {}}

(***************************************************************************)
(* State                                                                   *)
(***************************************************************************)
VARIABLES
    DEBUG,              \* build option: #if defined(DEBUG)
    _VectorsAllocated,  \* [word index -> set of set bit positions]
    lockOwner,          \* task running with interrupts locked, or NoTask
    task,               \* per task: program position and locals
    hist,               \* the most recently completed call
    held,               \* vectors handed out by _IntVecAlloc(), not yet freed
    reserved,           \* vectors marked by _IntVecMarkAllocated(), not freed
    audit,              \* observations about the run that the claims refer to
    CONFIG_BOI_HANDLER_SUPPORTED,   \* build option
    CONFIG_EOI_HANDLER_SUPPORTED,   \* build option
    idt,                \* the IDT: [byte offset of an entry -> descriptor]
    stubMem,            \* per task, the bytes of its NANO_INT_STUB buffer
    calls               \* per task, the number of calls it has made

build ==
    <<DEBUG, CONFIG_BOI_HANDLER_SUPPORTED, CONFIG_EOI_HANDLER_SUPPORTED,
      CONFIG_IDT_NUM_VECTORS>>
tables == <<idt, stubMem>>
vars ==
    <<build, tables, _VectorsAllocated, lockOwner, task, hist, held,
      reserved, audit, calls>>

AllOnes == [w \in 0..(VEC_ALLOC_NUM_INTS - 1) |-> BitPositions]

NULL == 0

\* The locals of irq_connect() (cx.active: the task is inside irq_connect()),
\* with the number of stub bytes and of IDT entries the call has written.
NoFrame ==
    [active |-> FALSE, priority |-> 0, routine |-> NULL, parameter |-> 0,
     vector |-> 0, boiRtn |-> NULL, eoiRtn |-> NULL,
     boiRtnParm |-> 0, eoiRtnParm |-> 0,
     boiParamRequired |-> 0, eoiParamRequired |-> 0,
     offsetAdjust |-> 0, numParameters |-> 0,
     stubWrites |-> 0, idtWrites |-> 0,
     preStub |-> <<>>, preIdt |-> <<>>]

\* A task that is not inside any routine of this module.
IdleTask ==
    [pc |-> "idle", fn |-> "none", callerLocked |-> FALSE, arg |-> 0,
     imask |-> FALSE, entryToScan |-> 0, fsb |-> 0, ret |-> 0,
     locks |-> 0, unlocks |-> 0, pre |-> AllOnes, cx |-> NoFrame]

NoCall == [fn |-> "none", arg |-> 0, ret |-> 0]

NoAudit ==
    [unlockedAccess |-> FALSE, doubleAlloc |-> FALSE, strayIdtWrite |-> FALSE]

\* A task can take a step unless another task runs with interrupts locked.
Runnable(t) == lockOwner \in {NoTask, t}

(***************************************************************************)
(* irq_lock() / irq_unlock()                                               *)
(***************************************************************************)

\* irq_lock(): disables interrupts and returns the previous state as the
\* key (TRUE: interrupts were enabled).
irq_lock_key == (lockOwner = NoTask)

\* irq_unlock(key): restores the interrupt state that the key records.
irq_unlock(t, key) == IF key THEN NoTask ELSE t

\* Whether task t touches _VectorsAllocated[] with interrupts not locked.
Unlocked(t) == lockOwner # t

(***************************************************************************)
(* _IntVecAlloc()                                                          *)
(***************************************************************************)

\* The caller invokes _IntVecAlloc(priority), with interrupts locked by the
\* caller itself or not.  With DEBUG undefined the priority is not checked
\* and the caller must keep the scanned entry inside the array.
Call_IntVecAlloc(t, priority, locked) ==
    /\ task[t].pc = "idle"
    /\ Runnable(t)
    /\ DEBUG \/ (priority \div 2) < VEC_ALLOC_NUM_INTS
    /\ task' = [task EXCEPT ![t] = [IdleTask EXCEPT
                    !.pc = "alloc_check", !.fn = "_IntVecAlloc",
                    !.arg = priority, !.callerLocked = locked,
                    !.pre = _VectorsAllocated]]
    /\ lockOwner' = IF locked THEN t ELSE lockOwner
    /\ UNCHANGED <<build, tables, _VectorsAllocated, hist, held,
                   reserved, audit>>

\* The DEBUG check that the IDT has enough vectors for the priority.
PriorityOutOfRange(priority) ==
    ((priority * 16) + 15) > CONFIG_IDT_NUM_VECTORS

\* Lines 470-486: the range check, then entryToScan = priority >> 1.
IntVecAlloc_Check(t) ==
    /\ task[t].pc = "alloc_check"
    /\ Runnable(t)
    /\ IF DEBUG /\ PriorityOutOfRange(task[t].arg)
         THEN task' = [task EXCEPT ![t].pc = "return", ![t].ret = -1]
         ELSE task' = [task EXCEPT ![t].pc = "alloc_lock",
                                   ![t].entryToScan = task[t].arg \div 2]
    /\ UNCHANGED <<build, tables, _VectorsAllocated, lockOwner, hist, held,
                   reserved, audit>>

\* IntVecAlloc_Lock() with the call of irq_lock() left out.
IntVecAlloc_Lock_NoLock(t) ==
    /\ task[t].pc = "alloc_lock"
    /\ Runnable(t)
    /\ task' = [task EXCEPT ![t].pc = "alloc_scan",
                            ![t].imask = irq_lock_key,
                            ![t].locks = @ + 1]
    /\ UNCHANGED <<build, tables, _VectorsAllocated, lockOwner, hist, held,
                   reserved, audit>>

\* Line 500: imask = irq_lock().
IntVecAlloc_Lock(t) ==
    /\ task[t].pc = "alloc_lock"
    /\ Runnable(t)
    /\ task' = [task EXCEPT ![t].pc = "alloc_scan",
                            ![t].imask = irq_lock_key,
                            ![t].locks = @ + 1]
    /\ lockOwner' = t
    /\ UNCHANGED <<build, tables, _VectorsAllocated, hist, held,
                   reserved, audit>>

\* ScanEntry() scanning from the LSB whatever the priority.
ScanEntry_FirstOnly(priority, w) == find_first_set(w)

\* The first set bit in the entry: from the LSB for even priorities, from
\* the MSB for odd ones.
ScanEntry(priority, w) ==
    IF (priority % 2) = 0 THEN find_first_set(w) ELSE find_last_set(w)

\* ScanFailed() with each half one bit short.
ScanFailed_Short(priority, fsb) ==
    IF (priority % 2) = 0 THEN (fsb = 0) \/ (fsb > 15)
                          ELSE (fsb = 0) \/ (fsb < 18)

\* ScanFailed() testing only whether the entry is empty.
ScanFailed_EmptyOnly(priority, fsb) == (fsb = 0)

\* The DEBUG test that the bit found is not in the priority's half.
ScanFailed(priority, fsb) ==
    IF (priority % 2) = 0 THEN (fsb = 0) \/ (fsb > 16)
                          ELSE (fsb = 0) \/ (fsb < 17)

\* Lines 502-536: scan the entry; in a DEBUG build give up if the
\* priority's half holds no free vector.
IntVecAlloc_Scan(t) ==
    /\ task[t].pc = "alloc_scan"
    /\ Runnable(t)
    /\ LET fsb == ScanEntry(task[t].arg, _VectorsAllocated[task[t].entryToScan])
       IN  task' = [task EXCEPT
                ![t].fsb = fsb,
                ![t].pc = IF DEBUG /\ ScanFailed(task[t].arg, fsb)
                            THEN "alloc_fail" ELSE "alloc_clear"]
    /\ audit' = [audit EXCEPT !.unlockedAccess = @ \/ Unlocked(t)]
    /\ UNCHANGED <<build, tables, _VectorsAllocated, lockOwner, hist, held,
                   reserved>>

\* IntVecAlloc_Fail() returning -1 with interrupts still locked.
IntVecAlloc_Fail_NoUnlock(t) ==
    /\ task[t].pc = "alloc_fail"
    /\ Runnable(t)
    /\ task' = [task EXCEPT ![t].pc = "return", ![t].ret = -1]
    /\ UNCHANGED <<build, tables, _VectorsAllocated, lockOwner, hist, held,
                   reserved, audit>>

\* Lines 515-516 and 532-533: irq_unlock(imask); return (-1).
IntVecAlloc_Fail(t) ==
    /\ task[t].pc = "alloc_fail"
    /\ Runnable(t)
    /\ lockOwner' = irq_unlock(t, task[t].imask)
    /\ task' = [task EXCEPT ![t].pc = "return", ![t].ret = -1,
                            ![t].unlocks = @ + 1]
    /\ UNCHANGED <<build, tables, _VectorsAllocated, hist, held,
                   reserved, audit>>

\* VectorOf() shifting the entry by 4 (16 vectors an entry) instead of 5.
VectorOf_Shift4(entryToScan, fsb) == (entryToScan * 16) + fsb

\* vector = (entryToScan << 5) + fsb, in 32-bit arithmetic.
VectorOf(entryToScan, fsb) == (entryToScan * 32) + fsb

\* AllocClearWord() leaving the entry as it is.
AllocClearWord_Keep(w, mask) == w

\* Line 544: the entry after "&= ~(1 << fsb)", mask being (1 << fsb).
AllocClearWord(w, mask) == w \ mask

\* Lines 540-544: --fsb; _VectorsAllocated[entryToScan] &= ~(1 << fsb).
IntVecAlloc_Clear(t) ==
    /\ task[t].pc = "alloc_clear"
    /\ Runnable(t)
    /\ LET fsb == task[t].fsb - 1
           e   == task[t].entryToScan
           v   == VectorOf(e, fsb)
       IN  /\ \E mask \in ShiftOne(fsb) :
                _VectorsAllocated' =
                    [_VectorsAllocated EXCEPT ![e] = AllocClearWord(@, mask)]
           /\ task' = [task EXCEPT ![t].pc = "alloc_unlock", ![t].fsb = fsb]
           /\ held' = held \cup {v}
           /\ audit' = [audit EXCEPT
                          !.unlockedAccess = @ \/ Unlocked(t),
                          !.doubleAlloc = @ \/ (v \in held)]
    /\ UNCHANGED <<build, tables, lockOwner, hist, reserved>>

\* Line 546: irq_unlock(imask).
IntVecAlloc_Unlock(t) ==
    /\ task[t].pc = "alloc_unlock"
    /\ Runnable(t)
    /\ lockOwner' = irq_unlock(t, task[t].imask)
    /\ task' = [task EXCEPT ![t].pc = "alloc_vector", ![t].unlocks = @ + 1]
    /\ UNCHANGED <<build, tables, _VectorsAllocated, hist, held,
                   reserved, audit>>

\* Lines 550-552: vector = (entryToScan << 5) + fsb; return vector.
IntVecAlloc_Vector(t) ==
    /\ task[t].pc = "alloc_vector"
    /\ Runnable(t)
    /\ task' = [task EXCEPT
            ![t].pc = "return",
            ![t].ret = VectorOf(task[t].entryToScan, task[t].fsb)]
    /\ UNCHANGED <<build, tables, _VectorsAllocated, lockOwner, hist, held,
                   reserved, audit>>

_IntVecAlloc(t) ==
    \/ IntVecAlloc_Check(t)
    \/ IntVecAlloc_Lock(t)
    \/ IntVecAlloc_Scan(t)
    \/ IntVecAlloc_Fail(t)
    \/ IntVecAlloc_Clear(t)
    \/ IntVecAlloc_Unlock(t)
    \/ IntVecAlloc_Vector(t)

(***************************************************************************)
(* _IntVecMarkAllocated() and _IntVecMarkFree()                            *)
(***************************************************************************)

Call_IntVecMarkAllocated(t, vector, locked) ==
    /\ task[t].pc = "idle"
    /\ Runnable(t)
    /\ task' = [task EXCEPT ![t] = [IdleTask EXCEPT
                    !.pc = "marka_lock", !.fn = "_IntVecMarkAllocated",
                    !.arg = vector, !.callerLocked = locked,
                    !.pre = _VectorsAllocated]]
    /\ lockOwner' = IF locked THEN t ELSE lockOwner
    /\ UNCHANGED <<build, tables, _VectorsAllocated, hist, held,
                   reserved, audit>>

\* Line 574: imask = irq_lock().
IntVecMarkAllocated_Lock(t) ==
    /\ task[t].pc = "marka_lock"
    /\ Runnable(t)
    /\ task' = [task EXCEPT ![t].pc = "marka_clear",
                            ![t].imask = irq_lock_key,
                            ![t].locks = @ + 1]
    /\ lockOwner' = t
    /\ UNCHANGED <<build, tables, _VectorsAllocated, hist, held,
                   reserved, audit>>

\* EntryToSet() dividing by the vectors of a priority, not of an entry.
EntryToSet_Div16(vector) == vector \div 16

\* Lines 570 and 591: entryToSet = vector / 32.
EntryToSet(vector) == vector \div 32

\* BitToSet() taking the vector modulo 16 instead of 32.
BitToSet_Mod16(vector) == vector % 16

\* Lines 571 and 592: bitToSet = vector % 32.
BitToSet(vector) == vector % 32

\* MarkAllocatedWord() setting the bit instead of clearing it.
MarkAllocatedWord_Set(w, mask) == w \cup mask

\* Line 575: the entry after "&= ~(1 << bitToSet)", mask being the shift.
MarkAllocatedWord(w, mask) == w \ mask

\* Lines 570-571 and 575:
\* _VectorsAllocated[entryToSet] &= ~(1 << bitToSet).
IntVecMarkAllocated_Clear(t) ==
    /\ task[t].pc = "marka_clear"
    /\ Runnable(t)
    /\ LET entryToSet == EntryToSet(task[t].arg)
           bitToSet   == BitToSet(task[t].arg)
       IN  \E mask \in ShiftOne(bitToSet) :
              _VectorsAllocated' =
                  [_VectorsAllocated EXCEPT
                     ![entryToSet] = MarkAllocatedWord(@, mask)]
    /\ task' = [task EXCEPT ![t].pc = "marka_unlock"]
    /\ reserved' = reserved \cup {task[t].arg}
    /\ audit' = [audit EXCEPT !.unlockedAccess = @ \/ Unlocked(t)]
    /\ UNCHANGED <<build, tables, lockOwner, hist, held>>

\* Line 576: irq_unlock(imask).
IntVecMarkAllocated_Unlock(t) ==
    /\ task[t].pc = "marka_unlock"
    /\ Runnable(t)
    /\ lockOwner' = irq_unlock(t, task[t].imask)
    /\ task' = [task EXCEPT ![t].pc = "return", ![t].unlocks = @ + 1]
    /\ UNCHANGED <<build, tables, _VectorsAllocated, hist, held,
                   reserved, audit>>

_IntVecMarkAllocated(t) ==
    \/ IntVecMarkAllocated_Lock(t)
    \/ IntVecMarkAllocated_Clear(t)
    \/ IntVecMarkAllocated_Unlock(t)

Call_IntVecMarkFree(t, vector, locked) ==
    /\ task[t].pc = "idle"
    /\ Runnable(t)
    /\ task' = [task EXCEPT ![t] = [IdleTask EXCEPT
                    !.pc = "markf_lock", !.fn = "_IntVecMarkFree",
                    !.arg = vector, !.callerLocked = locked,
                    !.pre = _VectorsAllocated]]
    /\ lockOwner' = IF locked THEN t ELSE lockOwner
    /\ UNCHANGED <<build, tables, _VectorsAllocated, hist, held,
                   reserved, audit>>

\* Line 595: imask = irq_lock().
IntVecMarkFree_Lock(t) ==
    /\ task[t].pc = "markf_lock"
    /\ Runnable(t)
    /\ task' = [task EXCEPT ![t].pc = "markf_set",
                            ![t].imask = irq_lock_key,
                            ![t].locks = @ + 1]
    /\ lockOwner' = t
    /\ UNCHANGED <<build, tables, _VectorsAllocated, hist, held,
                   reserved, audit>>

\* MarkFreeWord() toggling the bit instead of setting it.
MarkFreeWord_Toggle(w, mask) == (w \ mask) \cup (mask \ w)

\* Line 596: the entry after "|= (1 << bitToSet)", mask being the shift.
MarkFreeWord(w, mask) == w \cup mask

\* Lines 591-592 and 596:
\* _VectorsAllocated[entryToSet] |= (1 << bitToSet).
IntVecMarkFree_Set(t) ==
    /\ task[t].pc = "markf_set"
    /\ Runnable(t)
    /\ LET entryToSet == EntryToSet(task[t].arg)
           bitToSet   == BitToSet(task[t].arg)
       IN  \E mask \in ShiftOne(bitToSet) :
              _VectorsAllocated' =
                  [_VectorsAllocated EXCEPT
                     ![entryToSet] = MarkFreeWord(@, mask)]
    /\ task' = [task EXCEPT ![t].pc = "markf_unlock"]
    /\ held' = held \ {task[t].arg}
    /\ reserved' = reserved \ {task[t].arg}
    /\ audit' = [audit EXCEPT !.unlockedAccess = @ \/ Unlocked(t)]
    /\ UNCHANGED <<build, tables, lockOwner, hist>>

\* Line 597: irq_unlock(imask).
IntVecMarkFree_Unlock(t) ==
    /\ task[t].pc = "markf_unlock"
    /\ Runnable(t)
    /\ lockOwner' = irq_unlock(t, task[t].imask)
    /\ task' = [task EXCEPT ![t].pc = "return", ![t].unlocks = @ + 1]
    /\ UNCHANGED <<build, tables, _VectorsAllocated, hist, held,
                   reserved, audit>>

_IntVecMarkFree(t) ==
    \/ IntVecMarkFree_Lock(t)
    \/ IntVecMarkFree_Set(t)
    \/ IntVecMarkFree_Unlock(t)

(***************************************************************************)
(* 32-bit arithmetic and the memory of a stub                              *)
(***************************************************************************)

Lo16(x) == x % 65536
Hi16(x) == (x \div 65536) % 65536

\* The 32-bit value with the given halves, as a two's-complement int.
Word32(hi, lo) ==
    IF hi >= 32768 THEN ((hi - 65536) * 65536) + lo ELSE (hi * 65536) + lo

\* (unsigned int)a - (unsigned int)b, modulo 2^32.
Sub32(a, b) ==
    LET lo     == Lo16(a) - Lo16(b)
        borrow == IF lo < 0 THEN 1 ELSE 0
        hi     == (Hi16(a) - Hi16(b)) - borrow
    IN  Word32(hi % 65536, lo % 65536)

\* (unsigned int)a + (unsigned int)b, modulo 2^32.
Add32(a, b) ==
    LET lo    == Lo16(a) + Lo16(b)
        carry == IF lo >= 65536 THEN 1 ELSE 0
        hi    == (Hi16(a) + Hi16(b)) + carry
    IN  Word32(hi % 65536, lo % 65536)

\* Byte i (0: least significant) of a 32-bit value.
ByteOf(x, i) ==
    CASE i = 0 -> Lo16(x) % 256
      [] i = 1 -> Lo16(x) \div 256
      [] i = 2 -> Hi16(x) % 256
      [] i = 3 -> Hi16(x) \div 256

\* Size of a NANO_INT_STUB: the full stub of the module header, whose last
\* instruction (5 bytes) is at offset 0x26.
_INT_STUB_SIZE == 43

\* Opcodes, as in the machine code of the module header.
IA32_CALL_OPCODE == 232
IA32_PUSH_OPCODE == 104
IA32_ADD_OPCODE == 50307
IA32_JMP_OPCODE == 233

\* Addresses of the routines and buffers (fixed when the image is linked).
_IntEnt == 1048576
_IntExit == 1049088

\* The NANO_INT_STUB buffer that task t passes as pIntStubMem: one in low
\* memory, one above 0x80000000.
pIntStubMem(t) == IF t = 1 THEN 2097152 ELSE (-2147483647) + 15

\* &pIntStubMem[k]
StubAddr(t, k) == Add32(pIntStubMem(t), k)

\* The memory at a stub buffer is the function from the offsets written so
\* far to the bytes they hold.
\* STUB_PTR[at] = byte
Poke(mem, at, byte) == (at :> byte) @@ mem

\* UNALIGNED_WRITE() storing a 64-bit value.
UNALIGNED_WRITE_Wide(mem, at, value) ==
    [i \in (at + 4)..(at + 7) |-> 0] @@
    Poke(Poke(Poke(Poke(mem, at, ByteOf(value, 0)),
                   at + 1, ByteOf(value, 1)),
              at + 2, ByteOf(value, 2)),
         at + 3, ByteOf(value, 3))

\* UNALIGNED_WRITE((unsigned int *)&STUB_PTR[at], value): a little-endian
\* 32-bit store at any alignment.
UNALIGNED_WRITE(mem, at, value) ==
    Poke(Poke(Poke(Poke(mem, at, ByteOf(value, 0)),
                   at + 1, ByteOf(value, 1)),
              at + 2, ByteOf(value, 2)),
         at + 3, ByteOf(value, 3))

\* StoreBranch() with the displacement taken from the address of the
\* instruction instead of the address of the next one.
StoreBranch_FromStart(mem, t, opcode, at, next, target) ==
    UNALIGNED_WRITE(Poke(mem, at, opcode), at + 1,
                    Sub32(target, StubAddr(t, at)))

\* STUB_PTR[at] = IA32_CALL_OPCODE (or IA32_JMP_OPCODE);
\* UNALIGNED_WRITE(&STUB_PTR[at + 1], target - &pIntStubMem[next])
StoreBranch(mem, t, opcode, at, next, target) ==
    UNALIGNED_WRITE(Poke(mem, at, opcode), at + 1,
                    Sub32(target, StubAddr(t, next)))

\* STUB_PTR[at] = IA32_PUSH_OPCODE; UNALIGNED_WRITE(&STUB_PTR[at + 1], value)
StorePush(mem, at, value) ==
    UNALIGNED_WRITE(Poke(mem, at, IA32_PUSH_OPCODE), at + 1, value)

\* unsigned char arithmetic
Char(n) == n % 256

(***************************************************************************)
(* _IntVecSet()                                                            *)
(***************************************************************************)

\* Byte offsets of the entries of the IDT.
IdtOffsets == {8 * v : v \in 0..(CONFIG_IDT_NUM_VECTORS - 1)}

\* The variable idt holds the entries written since the kernel started, by
\* byte offset from _idt_base_address; the others are as genIdt built them.
InitialIdt == <<>>

\* _IdtEntCreate(pIdtEntry, routine, dpl): the interrupt-gate descriptor.
_IdtEntCreate(routine, dpl) == [routine |-> routine, dpl |-> dpl]

\* IdtEntryOffset() without the shift by 3 (entries taken as bytes).
IdtEntryOffset_NoShift(vector) == vector

\* vector << 3, modulo 2^32 (vector is an unsigned int; -1 is 0xFFFFFFFF).
IdtEntryOffset(vector) == vector * 8

\* _IntVecSet() creating every descriptor with privilege level 0.
_IntVecSet_Dpl0(table, vector, routine, dpl) ==
    IF IdtEntryOffset(vector) \in IdtOffsets
      THEN (IdtEntryOffset(vector) :> _IdtEntCreate(routine, 0)) @@ table
      ELSE table

\* Lines 164-186: the table after _IntVecSet(vector, routine, dpl).  No
\* validation of <vector> is performed: an offset outside the table is a
\* write to other memory, which audit.strayIdtWrite records.
_IntVecSet(table, vector, routine, dpl) ==
    IF IdtEntryOffset(vector) \in IdtOffsets
      THEN (IdtEntryOffset(vector) :> _IdtEntCreate(routine, dpl)) @@ table
      ELSE table

\* Whether _IntVecSet(vector, ...) writes outside the IDT.
StrayIdtWrite(vector) == IdtEntryOffset(vector) \notin IdtOffsets

\* A task calls _IntVecSet(vector, routine, dpl) itself, as the code that
\* connects exception handlers does; the routine is a single store.
Call_IntVecSet(t, vector, routine, dpl) ==
    /\ task[t].pc = "idle"
    /\ Runnable(t)
    /\ idt' = _IntVecSet(idt, vector, routine, dpl)
    /\ audit' = [audit EXCEPT !.strayIdtWrite = @ \/ StrayIdtWrite(vector)]
    /\ hist' = [fn |-> "_IntVecSet", arg |-> vector, ret |-> 0]
    /\ UNCHANGED <<build, stubMem, _VectorsAllocated, lockOwner, task, held,
                   reserved>>

(***************************************************************************)
(* irq_connect()                                                           *)
(***************************************************************************)

\* The callouts a board may report: none, or a routine that takes a
\* parameter or none.
BoiRoutine == 1050624
EoiRoutine == 1051648
BoiParameter == 170
EoiParameter == 48042

Call_irq_connect(t, priority, routine, parameter) ==
    /\ task[t].pc = "idle"
    /\ Runnable(t)
    /\ task' = [task EXCEPT ![t] = [IdleTask EXCEPT
                    !.pc = "connect_sysalloc", !.fn = "irq_connect",
                    !.arg = priority, !.pre = _VectorsAllocated,
                    !.cx = [NoFrame EXCEPT
                              !.active = TRUE, !.priority = priority,
                              !.routine = routine, !.parameter = parameter,
                              !.numParameters = 1,
                              !.preStub = stubMem[t], !.preIdt = idt]]]
    /\ UNCHANGED <<build, tables, _VectorsAllocated, lockOwner, hist, held,
                   reserved, audit>>

\* Lines 278-285: _SysIntVecAlloc() of the BSP reports the callouts of the
\* interrupt controller and either fails (returns -1) or calls
\* _IntVecAlloc(priority) for the vector.
_SysIntVecAlloc(t, fail, boiRtn, boiParamRequired, eoiRtn, eoiParamRequired) ==
    /\ task[t].pc = "connect_sysalloc"
    /\ Runnable(t)
    /\ DEBUG \/ fail \/ (task[t].cx.priority \div 2) < VEC_ALLOC_NUM_INTS
    /\ LET frame == [task[t].cx EXCEPT
                        !.boiRtn = boiRtn, !.eoiRtn = eoiRtn,
                        !.boiRtnParm = BoiParameter,
                        !.eoiRtnParm = EoiParameter,
                        !.boiParamRequired = boiParamRequired,
                        !.eoiParamRequired = eoiParamRequired]
       IN  task' = [task EXCEPT ![t] =
              IF fail
                THEN [task[t] EXCEPT !.pc = "connect_check",
                                     !.cx = [frame EXCEPT !.vector = -1]]
                ELSE [task[t] EXCEPT !.pc = "alloc_check",
                                     !.fn = "_IntVecAlloc",
                                     !.arg = task[t].cx.priority,
                                     !.pre = _VectorsAllocated,
                                     !.cx = frame]]
    /\ UNCHANGED <<build, tables, _VectorsAllocated, lockOwner, hist, held,
                   reserved, audit>>

\* _IntVecAlloc() returns into _SysIntVecAlloc(), which returns the vector.
SysIntVecAlloc_Return(t) ==
    /\ task[t].pc = "return"
    /\ task[t].cx.active
    /\ task[t].fn = "_IntVecAlloc"
    /\ Runnable(t)
    /\ task' = [task EXCEPT ![t] = [IdleTask EXCEPT
                    !.pc = "connect_check", !.fn = "irq_connect",
                    !.arg = task[t].cx.priority,
                    !.callerLocked = task[t].callerLocked,
                    !.cx = [task[t].cx EXCEPT !.vector = task[t].ret]]]
    /\ UNCHANGED <<build, tables, _VectorsAllocated, lockOwner, hist, held,
                   reserved, audit>>

\* irq_connect_Check() going on to build the stub whatever the vector is.
irq_connect_Check_NoCheck(t) ==
    /\ task[t].pc = "connect_check"
    /\ Runnable(t)
    /\ task' = [task EXCEPT ![t].pc = "connect_entry"]
    /\ UNCHANGED <<build, tables, _VectorsAllocated, lockOwner, hist, held,
                   reserved, audit>>

\* Lines 287-297: in a DEBUG build, return (-1) if no vector was allocated.
irq_connect_Check(t) ==
    /\ task[t].pc = "connect_check"
    /\ Runnable(t)
    /\ IF DEBUG /\ task[t].cx.vector = -1
         THEN task' = [task EXCEPT ![t].pc = "connect_done", ![t].ret = -1]
         ELSE task' = [task EXCEPT ![t].pc = "connect_entry"]
    /\ UNCHANGED <<build, tables, _VectorsAllocated, lockOwner, hist, held,
                   reserved, audit>>

\* Lines 306-310: call _IntEnt.
irq_connect_IntEnt(t) ==
    /\ task[t].pc = "connect_entry"
    /\ Runnable(t)
    /\ stubMem' = [stubMem EXCEPT ![t] =
            StoreBranch(@, t, IA32_CALL_OPCODE, 0, 5, _IntEnt)]
    /\ task' = [task EXCEPT ![t].pc = "connect_boi",
                            ![t].cx.offsetAdjust = 5,
                            ![t].cx.stubWrites = @ + 5]
    /\ UNCHANGED <<build, idt, _VectorsAllocated, lockOwner, hist, held,
                   reserved, audit>>

\* CalloutSkipped() looking at the routine pointer only.
CalloutSkipped_IgnoreSupport(supported, rtn) == rtn = NULL

\* Lines 312-317 and 356-361: a callout block is compiled in only when the
\* build supports the handler, and is skipped when the board code gave no
\* routine.
CalloutSkipped(supported, rtn) == ~supported \/ rtn = NULL

\* Lines 312-341: the BOI related opcodes.
irq_connect_Boi(t) ==
    /\ task[t].pc = "connect_boi"
    /\ Runnable(t)
    /\ LET off == task[t].cx.offsetAdjust
           cx  == task[t].cx
       IN  IF CalloutSkipped(CONFIG_BOI_HANDLER_SUPPORTED, cx.boiRtn)
             THEN /\ task' = [task EXCEPT ![t].pc = "connect_isr"]
                  /\ UNCHANGED stubMem
             ELSE IF cx.boiParamRequired # 0
               THEN /\ stubMem' = [stubMem EXCEPT ![t] =
                         StoreBranch(StorePush(@, off, cx.boiRtnParm), t,
                                     IA32_CALL_OPCODE, 5 + off, 10 + off,
                                     cx.boiRtn)]
                    /\ task' = [task EXCEPT
                         ![t].pc = "connect_isr",
                         ![t].cx.offsetAdjust = Char(off + 10),
                         ![t].cx.numParameters = Char(@ + 1),
                         ![t].cx.stubWrites = @ + 10]
               ELSE /\ stubMem' = [stubMem EXCEPT ![t] =
                         StoreBranch(@, t, IA32_CALL_OPCODE, off, 5 + off,
                                     cx.boiRtn)]
                    /\ task' = [task EXCEPT
                         ![t].pc = "connect_isr",
                         ![t].cx.offsetAdjust = Char(off + 5),
                         ![t].cx.stubWrites = @ + 5]
    /\ UNCHANGED <<build, idt, _VectorsAllocated, lockOwner, hist, held,
                   reserved, audit>>

\* Lines 343-354: push the ISR parameter, call the ISR.
irq_connect_Isr(t) ==
    /\ task[t].pc = "connect_isr"
    /\ Runnable(t)
    /\ LET off == task[t].cx.offsetAdjust
           cx  == task[t].cx
       IN  /\ stubMem' = [stubMem EXCEPT ![t] =
                 StoreBranch(StorePush(@, off, cx.parameter), t,
                             IA32_CALL_OPCODE, 5 + off, 10 + off, cx.routine)]
           /\ task' = [task EXCEPT ![t].pc = "connect_eoi",
                                   ![t].cx.offsetAdjust = Char(off + 10),
                                   ![t].cx.stubWrites = @ + 10]
    /\ UNCHANGED <<build, idt, _VectorsAllocated, lockOwner, hist, held,
                   reserved, audit>>

\* Lines 356-385: the EOI related opcodes.
irq_connect_Eoi(t) ==
    /\ task[t].pc = "connect_eoi"
    /\ Runnable(t)
    /\ LET off == task[t].cx.offsetAdjust
           cx  == task[t].cx
       IN  IF CalloutSkipped(CONFIG_EOI_HANDLER_SUPPORTED, cx.eoiRtn)
             THEN /\ task' = [task EXCEPT ![t].pc = "connect_add"]
                  /\ UNCHANGED stubMem
             ELSE IF cx.eoiParamRequired # 0
               THEN /\ stubMem' = [stubMem EXCEPT ![t] =
                         StoreBranch(StorePush(@, off, cx.eoiRtnParm), t,
                                     IA32_CALL_OPCODE, 5 + off, 10 + off,
                                     cx.eoiRtn)]
                    /\ task' = [task EXCEPT
                         ![t].pc = "connect_add",
                         ![t].cx.offsetAdjust = Char(off + 10),
                         ![t].cx.numParameters = Char(@ + 1),
                         ![t].cx.stubWrites = @ + 10]
               ELSE /\ stubMem' = [stubMem EXCEPT ![t] =
                         StoreBranch(@, t, IA32_CALL_OPCODE, off, 5 + off,
                                     cx.eoiRtn)]
                    /\ task' = [task EXCEPT
                         ![t].pc = "connect_add",
                         ![t].cx.offsetAdjust = Char(off + 5),
                         ![t].cx.stubWrites = @ + 5]
    /\ UNCHANGED <<build, idt, _VectorsAllocated, lockOwner, hist, held,
                   reserved, audit>>

\* CleanupImmediate() without the scaling by the size of a parameter.
CleanupImmediate_NoScale(numParameters) == Char(numParameters)

\* Line 397: (unsigned char)(4 * numParameters).
CleanupImmediate(numParameters) == Char(4 * numParameters)

\* Lines 387-399: addl $(4 * numParameters), %esp, a byte at a time.
irq_connect_Add(t) ==
    /\ task[t].pc = "connect_add"
    /\ Runnable(t)
    /\ LET off == task[t].cx.offsetAdjust
       IN  /\ stubMem' = [stubMem EXCEPT ![t] =
                 Poke(Poke(Poke(@, off, IA32_ADD_OPCODE % 256),
                           1 + off, IA32_ADD_OPCODE \div 256),
                      2 + off, CleanupImmediate(task[t].cx.numParameters))]
           /\ task' = [task EXCEPT ![t].pc = "connect_jmp",
                                   ![t].cx.offsetAdjust = Char(off + 3),
                                   ![t].cx.stubWrites = @ + 3]
    /\ UNCHANGED <<build, idt, _VectorsAllocated, lockOwner, hist, held,
                   reserved, audit>>

\* irq_connect_IntExit() emitting a call to _IntExit instead of a jmp.
irq_connect_IntExit_Call(t) ==
    /\ task[t].pc = "connect_jmp"
    /\ Runnable(t)
    /\ LET off == task[t].cx.offsetAdjust
       IN  /\ stubMem' = [stubMem EXCEPT ![t] =
                 StoreBranch(@, t, IA32_CALL_OPCODE, off, 5 + off, _IntExit)]
           /\ task' = [task EXCEPT ![t].pc = "connect_vecset",
                                   ![t].cx.stubWrites = @ + 5]
    /\ UNCHANGED <<build, idt, _VectorsAllocated, lockOwner, hist, held,
                   reserved, audit>>

\* Lines 401-410: jmp _IntExit.
irq_connect_IntExit(t) ==
    /\ task[t].pc = "connect_jmp"
    /\ Runnable(t)
    /\ LET off == task[t].cx.offsetAdjust
       IN  /\ stubMem' = [stubMem EXCEPT ![t] =
                 StoreBranch(@, t, IA32_JMP_OPCODE, off, 5 + off, _IntExit)]
           /\ task' = [task EXCEPT ![t].pc = "connect_vecset",
                                   ![t].cx.stubWrites = @ + 5]
    /\ UNCHANGED <<build, idt, _VectorsAllocated, lockOwner, hist, held,
                   reserved, audit>>

\* Line 427: _IntVecSet(vector, (void (*)(void *))pIntStubMem, 0).
irq_connect_IntVecSet(t) ==
    /\ task[t].pc = "connect_vecset"
    /\ Runnable(t)
    /\ idt' = _IntVecSet(idt, task[t].cx.vector, pIntStubMem(t), 0)
    /\ audit' = [audit EXCEPT
                   !.strayIdtWrite = @ \/ StrayIdtWrite(task[t].cx.vector)]
    /\ task' = [task EXCEPT ![t].pc = "connect_return",
                            ![t].cx.idtWrites = @ + 1]
    /\ UNCHANGED <<build, stubMem, _VectorsAllocated, lockOwner, hist, held,
                   reserved>>

\* Line 429: return vector.
irq_connect_Return(t) ==
    /\ task[t].pc = "connect_return"
    /\ Runnable(t)
    /\ task' = [task EXCEPT ![t].pc = "connect_done",
                            ![t].ret = task[t].cx.vector]
    /\ UNCHANGED <<build, tables, _VectorsAllocated, lockOwner, hist, held,
                   reserved, audit>>

\* irq_connect() has returned to its caller.
ConnectDone(t) ==
    /\ task[t].pc = "connect_done"
    /\ Runnable(t)
    /\ task' = [task EXCEPT ![t] = IdleTask]
    /\ UNCHANGED <<hist>>
    /\ UNCHANGED <<build, tables, _VectorsAllocated, lockOwner, held,
                   reserved, audit>>

irq_connect(t) ==
    \/ SysIntVecAlloc_Return(t)
    \/ irq_connect_Check(t)
    \/ irq_connect_IntEnt(t)
    \/ irq_connect_Boi(t)
    \/ irq_connect_Isr(t)
    \/ irq_connect_Eoi(t)
    \/ irq_connect_Add(t)
    \/ irq_connect_IntExit(t)
    \/ irq_connect_IntVecSet(t)
    \/ irq_connect_Return(t)

(***************************************************************************)
(* Return to the caller                                                    *)
(***************************************************************************)

\* The call that task t is returning from, as hist records it.
Completed(t) ==
    IF task[t].fn = "_IntVecAlloc"
      THEN [fn |-> task[t].fn, arg |-> task[t].arg, ret |-> task[t].ret]
      ELSE [NoCall EXCEPT !.fn = task[t].fn]

\* The routine returns; a caller that had locked interrupts unlocks them.
Return(t) ==
    /\ task[t].pc = "return"
    /\ ~task[t].cx.active
    /\ Runnable(t)
    /\ task' = [task EXCEPT ![t] = IdleTask]
    /\ lockOwner' = IF task[t].callerLocked THEN NoTask ELSE lockOwner
    /\ UNCHANGED <<build, tables, _VectorsAllocated, held, reserved, audit>>

(***************************************************************************)
(* Specifications                                                          *)
(***************************************************************************)

FreshStubs == [t \in Tasks |-> <<>>]

\* The state when the kernel starts, for a build with the given options,
\* but for the vectors that the board has reserved by then.
Boot(debug, boi, eoi) ==
    /\ DEBUG = debug
    /\ CONFIG_BOI_HANDLER_SUPPORTED = boi
    /\ CONFIG_EOI_HANDLER_SUPPORTED = eoi
    /\ idt = InitialIdt
    /\ stubMem = FreshStubs
    /\ lockOwner = NoTask
    /\ task = [t \in Tasks |-> IdleTask]
    /\ hist = NoCall
    /\ held = {}
    /\ audit = NoAudit
    /\ calls = [t \in Tasks |-> 0]

\* One task calls the allocator routines, any number of times.
Init ==
    /\ CONFIG_IDT_NUM_VECTORS \in IdtSizes
    /\ \E debug \in BOOLEAN : Boot(debug, FALSE, FALSE)
    /\ _VectorsAllocated = AllOnes
    /\ reserved = {}

AllocatorCall(t) ==
    \/ \E p \in AllocPriorities : Call_IntVecAlloc(t, p, FALSE)
    \/ \E v \in MarkVectors : Call_IntVecMarkAllocated(t, v, FALSE)
    \/ \E v \in MarkVectors : Call_IntVecMarkFree(t, v, FALSE)

AllocatorStep(t) ==
    \/ _IntVecAlloc(t)
    \/ _IntVecMarkAllocated(t)
    \/ _IntVecMarkFree(t)

Next ==
    /\ \/ AllocatorCall(1)
       \/ AllocatorStep(1)
       \/ Return(1) /\ hist' = Completed(1)
    /\ UNCHANGED calls

Spec == Init /\ [][Next]_vars

\* One task calls irq_connect(), at most MaxConnects times.
MaxConnects == 1

Routines == {1049600, -1073741824}
Parameters == {305419896}
CalloutRoutines(rtn) == {NULL, rtn}
ParamRequired == {0, 1}

InitConnect ==
    /\ CONFIG_IDT_NUM_VECTORS \in IdtSizes
    /\ \E debug, boi, eoi \in BOOLEAN : Boot(debug, boi, eoi)
    /\ _VectorsAllocated = AllOnes
    /\ reserved = {}

ConnectCall(t) ==
    /\ calls[t] < MaxConnects
    /\ \E p \in AllocPriorities, r \in Routines, a \in Parameters :
          Call_irq_connect(t, p, r, a)
    /\ calls' = [calls EXCEPT ![t] = @ + 1]

BoardStep(t) ==
    \E rejected \in BOOLEAN,
       boiRtn \in CalloutRoutines(BoiRoutine), boiReq \in ParamRequired,
       eoiRtn \in CalloutRoutines(EoiRoutine), eoiReq \in ParamRequired :
          _SysIntVecAlloc(t, rejected, boiRtn, boiReq, eoiRtn, eoiReq)

ConnectStep(t) ==
    /\ \/ BoardStep(t)
       \/ _IntVecAlloc(t)
       \/ irq_connect(t)
       \/ ConnectDone(t)
    /\ UNCHANGED calls

NextConnect == ConnectCall(1) \/ ConnectStep(1)

SpecConnect == InitConnect /\ [][NextConnect]_vars

\* Two tasks call the allocator routines, at most MaxCalls times each,
\* preempting one another wherever interrupts are not locked.  The tasks
\* start after the board has reserved vectors with _IntVecMarkAllocated():
\* none, all of entry 1 but one vector in each half, or all of entry 1.
MaxCalls == 2

ReservedAtStart == {BitPositions, {15, 16}, {}}

\* The vectors of entry 1 that are marked when the entry holds w.
MarkedInEntry1(w) == {32 + b : b \in BitPositions \ w}

InitConc ==
    /\ CONFIG_IDT_NUM_VECTORS \in IdtSizes
    /\ \E debug \in BOOLEAN : Boot(debug, FALSE, FALSE)
    /\ \E w \in ReservedAtStart :
          /\ _VectorsAllocated = [AllOnes EXCEPT ![1] = w]
          /\ reserved = MarkedInEntry1(w)

ConcPriorities == {2, 3}
ConcMarkVectors == {47}

ConcCall(t) ==
    /\ calls[t] < MaxCalls
    /\ \/ \E p \in ConcPriorities, l \in BOOLEAN : Call_IntVecAlloc(t, p, l)
       \/ \E v \in ConcMarkVectors, l \in BOOLEAN :
             Call_IntVecMarkAllocated(t, v, l)
       \/ \E v \in ConcMarkVectors, l \in BOOLEAN :
             Call_IntVecMarkFree(t, v, l)
    /\ calls' = [calls EXCEPT ![t] = @ + 1]

NextConc ==
    \E t \in Tasks :
       \/ ConcCall(t)
       \/ AllocatorStep(t) /\ UNCHANGED calls
       \/ Return(t) /\ UNCHANGED <<hist, calls>>

SpecConc == InitConc /\ [][NextConc]_vars

\* Two tasks call irq_connect(), at most MaxRaceConnects times in all, each
\* with its own stub buffer, on a board whose _SysIntVecAlloc() gets the
\* vector from _IntVecAlloc(); the tasks preempt one another wherever
\* interrupts are not locked.
MaxRaceConnects == 2

InitRace ==
    /\ CONFIG_IDT_NUM_VECTORS \in IdtSizes
    /\ \E debug \in BOOLEAN : Boot(debug, TRUE, TRUE)
    /\ \E w \in ReservedAtStart :
          /\ _VectorsAllocated = [AllOnes EXCEPT ![1] = w]
          /\ reserved = MarkedInEntry1(w)

\* Each task connects an ISR of its own.
RaceRoutine(t) == IF t = 1 THEN 1049600 ELSE -1073741824

RaceCall(t) ==
    /\ (calls[1] + calls[2]) < MaxRaceConnects
    /\ \E p \in ConcPriorities, a \in Parameters :
          Call_irq_connect(t, p, RaceRoutine(t), a)
    /\ calls' = [calls EXCEPT ![t] = @ + 1]

\* The board reports a BOI callout with a parameter, or none, and an EOI
\* callout without parameter.
RaceBoard(t) ==
    \E boiRtn \in CalloutRoutines(BoiRoutine) :
        _SysIntVecAlloc(t, FALSE, boiRtn, 1, EoiRoutine, 0)

RaceStep(t) ==
    /\ \/ RaceBoard(t)
       \/ _IntVecAlloc(t)
       \/ irq_connect(t)
       \/ ConnectDone(t)
    /\ UNCHANGED calls

NextRace == \E t \in Tasks : RaceCall(t) \/ RaceStep(t)

SpecRace == InitRace /\ [][NextRace]_vars

(***************************************************************************)
(* Properties of the allocator, for one caller (Spec)                      *)
(***************************************************************************)

\* Bit v % 32 of word v / 32 represents vector v; a set bit means "free".
IsFree(bits, v) == (v % 32) \in bits[v \div 32]

\* The 16 vectors of a priority level.
VectorsOf(priority) == (16 * priority)..((16 * priority) + 15)

\* The priorities whose 16 vectors all lie in the bitfield.
InBitfield(priority) == ((16 * priority) + 15) < (32 * VEC_ALLOC_NUM_INTS)

FreeVectors(bits, priority) == {v \in VectorsOf(priority) : IsFree(bits, v)}

\* The priority that shares its 32-bit entry with the given one (p XOR 1).
Sibling(priority) == IF (priority % 2) = 0 THEN priority + 1 ELSE priority - 1

\* Task 1 is about to return from the named routine.
Returning(fn) == task[1].pc = "return" /\ task[1].fn = fn

\* The words of the bitfield other than the given one are as at the call.
OtherWordsKept(e) ==
    \A w \in DOMAIN _VectorsAllocated :
        w # e => _VectorsAllocated[w] = task[1].pre[w]

\* C2 as stated: whenever _IntVecAlloc(priority) returns a vector (anything
\* but -1), the vector lies in entry priority >> 1, its bit was set before
\* the call and is clear after it, nothing else changed, and
\* vector / 16 = priority.
AllocResult ==
    LET p == task[1].arg
        v == task[1].ret
        e == p \div 2
    IN  /\ v \in (32 * e)..((32 * e) + 31)
        /\ IsFree(task[1].pre, v)
        /\ _VectorsAllocated[e] = task[1].pre[e] \ {v % 32}
        /\ OtherWordsKept(e)
        /\ (v \div 16) = p

C2_AsStated ==
    (Returning("_IntVecAlloc") /\ task[1].ret # -1) => AllocResult

\* C2, amended: whenever _IntVecAlloc(priority), for a priority whose 16
\* vectors lie in the bitfield, returns a vector (anything but -1) in a
\* DEBUG build, or in a build without DEBUG after a call made while one of
\* the priority's 16 vectors was free, the vector lies in entry
\* priority >> 1, its bit was set before the call and is clear after it,
\* nothing else changed, and vector / 16 = priority.
C2_AllocResult ==
    ( /\ Returning("_IntVecAlloc")
      /\ task[1].ret # -1
      /\ InBitfield(task[1].arg)
      /\ DEBUG \/ FreeVectors(task[1].pre, task[1].arg) # {} ) => AllocResult

C2_Witness ==
    /\ Returning("_IntVecAlloc")
    /\ DEBUG
    /\ task[1].arg = 2
    /\ task[1].ret = 33
    /\ IsFree(task[1].pre, 33)
    /\ ~IsFree(_VectorsAllocated, 33)

\* C3: while its 16 vectors are not all allocated, _IntVecAlloc(p) returns
\* the lowest free vector of an even p and the highest free vector of an
\* odd p; so two consecutive calls for p (no call in between) that both
\* return vectors of p return them in ascending order for an even p and in
\* descending order for an odd p.
C3_ScanOrder ==
    Returning("_IntVecAlloc") /\ InBitfield(task[1].arg) =>
        LET p    == task[1].arg
            v    == task[1].ret
            free == FreeVectors(task[1].pre, p)
        IN  /\ free # {} =>
                v = (IF (p % 2) = 0 THEN Min(free) ELSE Max(free))
            /\ ( /\ hist.fn = "_IntVecAlloc"
                 /\ hist.arg = p
                 /\ hist.ret \in VectorsOf(p)
                 /\ v \in VectorsOf(p) ) =>
                    (IF (p % 2) = 0 THEN hist.ret < v ELSE hist.ret > v)

C3_Witness ==
    /\ Returning("_IntVecAlloc")
    /\ hist = [fn |-> "_IntVecAlloc", arg |-> 3, ret |-> 63]
    /\ task[1].arg = 3
    /\ task[1].ret = 61
    /\ ~DEBUG

\* C4: in a DEBUG build, _IntVecAlloc(p) called when all 16 vectors of p
\* are allocated returns -1 and leaves every word of the bitfield as it
\* was, whatever the other half of the entry holds.
C4_Exhausted ==
    ( /\ Returning("_IntVecAlloc")
      /\ DEBUG
      /\ InBitfield(task[1].arg)
      /\ FreeVectors(task[1].pre, task[1].arg) = {} ) =>
        /\ task[1].ret = -1
        /\ _VectorsAllocated = task[1].pre

C4_Witness ==
    /\ Returning("_IntVecAlloc")
    /\ DEBUG
    /\ task[1].arg = 2
    /\ FreeVectors(task[1].pre, 2) = {}
    /\ FreeVectors(task[1].pre, 3) # {}
    /\ task[1].ret = -1

\* The 16 bits of the sibling of priority p are as they were at the call.
SiblingKept(p) ==
    \A v \in VectorsOf(Sibling(p)) :
        IsFree(_VectorsAllocated, v) = IsFree(task[1].pre, v)

\* What C5 says of a returning _IntVecAlloc(p): the sibling's bits are
\* unchanged and the vector returned is not one of the sibling's.
AllocFrame ==
    /\ SiblingKept(task[1].arg)
    /\ task[1].ret \notin VectorsOf(Sibling(task[1].arg))

\* What C5 says of _IntVecMarkAllocated(v) and _IntVecMarkFree(v): the bits
\* of the sibling of v's priority are unchanged.
MarkFrame ==
    (Returning("_IntVecMarkAllocated") \/ Returning("_IntVecMarkFree")) =>
        SiblingKept(task[1].arg \div 16)

\* C5 as stated: in every build and every state.
C5_AsStated ==
    /\ (Returning("_IntVecAlloc") /\ InBitfield(task[1].arg)) => AllocFrame
    /\ MarkFrame

\* C5, amended: _IntVecMarkAllocated(v) and _IntVecMarkFree(v) leave the 16
\* bits of the sibling of v's priority unchanged; so does _IntVecAlloc(p),
\* which also returns no vector of the sibling, in a DEBUG build, and in a
\* build without DEBUG when one of p's 16 vectors was free at the call.
C5_Frame ==
    /\ ( /\ Returning("_IntVecAlloc")
         /\ InBitfield(task[1].arg)
         /\ DEBUG \/ FreeVectors(task[1].pre, task[1].arg) # {} ) => AllocFrame
    /\ MarkFrame

C5_Witness ==
    /\ Returning("_IntVecAlloc")
    /\ task[1].arg = 2
    /\ task[1].ret = 33
    /\ FreeVectors(task[1].pre, 3) # VectorsOf(3)
    /\ FreeVectors(task[1].pre, 3) # {}
    /\ hist.fn = "_IntVecMarkFree"

C17_Idempotent ==
    /\ Returning("_IntVecMarkAllocated") =>
          /\ ~IsFree(_VectorsAllocated, task[1].arg)
          /\ ~IsFree(task[1].pre, task[1].arg) =>
                 _VectorsAllocated = task[1].pre
    /\ Returning("_IntVecMarkFree") =>
          /\ IsFree(_VectorsAllocated, task[1].arg)
          /\ IsFree(task[1].pre, task[1].arg) =>
                 _VectorsAllocated = task[1].pre

\* _IntVecMarkFree(62) returns for the second time in a row: the call
\* before was a _IntVecMarkFree() too, and not of 31, which is allocated.
C17_Witness ==
    /\ Returning("_IntVecMarkFree")
    /\ task[1].arg = 62
    /\ hist.fn = "_IntVecMarkFree"
    /\ IsFree(task[1].pre, 62)
    /\ ~IsFree(task[1].pre, 31)
    /\ _VectorsAllocated = task[1].pre

\* Every vector that has a bit in the bitfield, but v, is as at the call.
OthersKept(v) ==
    \A u \in 0..((32 * VEC_ALLOC_NUM_INTS) - 1) :
        u # v => (IsFree(_VectorsAllocated, u) <=> IsFree(task[1].pre, u))

\* The vector that the scan of _IntVecAlloc(priority) finds first.
FirstFree(bits, priority) ==
    IF (priority % 2) = 0
      THEN Min(FreeVectors(bits, priority))
      ELSE Max(FreeVectors(bits, priority))

\* C18: _IntVecMarkAllocated(v) changes no vector but v, and
\* _IntVecMarkFree(v) leaves v free and changes no vector but v, so that
\* _IntVecMarkFree(v) after _IntVecMarkAllocated(v) leaves v free and all
\* other vectors as they were; and _IntVecAlloc(v / 16) returns a free v
\* (allocating it) whenever v is the first free vector in the scan order
\* of its priority.
C18_FreeAgain ==
    /\ Returning("_IntVecMarkAllocated") => OthersKept(task[1].arg)
    /\ Returning("_IntVecMarkFree") =>
          /\ IsFree(_VectorsAllocated, task[1].arg)
          /\ OthersKept(task[1].arg)
    /\ Returning("_IntVecAlloc") /\ InBitfield(task[1].arg) =>
          \A v \in MarkVectors \cap FreeVectors(task[1].pre, task[1].arg) :
              v = FirstFree(task[1].pre, task[1].arg) =>
                  /\ task[1].ret = v
                  /\ ~IsFree(_VectorsAllocated, v)

\* _IntVecMarkFree(62) returns right after _IntVecMarkAllocated(62): the
\* call before was a _IntVecMarkAllocated(), and not of 31, which is free.
\* With 63 allocated, 62 is what _IntVecAlloc(3) finds first.
C18_Witness ==
    /\ Returning("_IntVecMarkFree")
    /\ task[1].arg = 62
    /\ hist.fn = "_IntVecMarkAllocated"
    /\ ~IsFree(task[1].pre, 62)
    /\ IsFree(task[1].pre, 31)
    /\ IsFree(_VectorsAllocated, 62)
    /\ ~IsFree(_VectorsAllocated, 63)
    /\ FirstFree(_VectorsAllocated, 3) = 62

(***************************************************************************)
(* Properties of the allocator under concurrent callers (SpecConc)         *)
(***************************************************************************)

\* C1 as stated: in every build, no _IntVecAlloc() call clears the bit of,
\* and returns, a vector that an earlier call returned and that no
\* _IntVecMarkFree() has freed since.
C1_AsStated == ~audit.doubleAlloc

\* C1, amended: between its scan and its clear a call holds the interrupt
\* lock, so that no other task runs in between; and a call that clears the
\* bit of a vector, in a DEBUG build or after a scan that found a set bit,
\* never takes a vector that an earlier call returned and that no
\* _IntVecMarkFree() has freed since.
C1_Atomic ==
    /\ [](\A t \in Tasks :
            task[t].pc \in {"alloc_scan", "alloc_clear", "alloc_unlock"} =>
                lockOwner = t)
    /\ [][\A t \in Tasks :
            (IntVecAlloc_Clear(t) /\ (DEBUG \/ task[t].fsb # 0)) =>
                VectorOf(task[t].entryToScan, task[t].fsb - 1) \notin held]_vars

\* Two overlapping _IntVecAlloc(2) calls (both made before either cleared a
\* bit) return different vectors.
C1_Witness ==
    /\ \A t \in Tasks : task[t].pc = "return" /\ task[t].fn = "_IntVecAlloc"
    /\ task[1].arg = 2 /\ task[2].arg = 2
    /\ task[1].pre = task[2].pre
    /\ task[1].ret = 33
    /\ task[2].ret = 32

\* C10: a call of _IntVecAlloc(), _IntVecMarkAllocated() or
\* _IntVecMarkFree() that is about to return has called irq_unlock() as
\* often as irq_lock() (at most once), interrupts are locked then exactly
\* if the caller had them locked at the call, and no call has read or
\* written _VectorsAllocated[] with interrupts not locked.
C10_LockBalance ==
    /\ \A t \in Tasks :
          task[t].pc = "return" =>
              /\ task[t].locks = task[t].unlocks
              /\ task[t].locks <= 1
              /\ (lockOwner = t) <=> task[t].callerLocked
              /\ task[t].callerLocked \/ task[t].locks = 0 \/ task[t].imask
    /\ ~audit.unlockedAccess

\* The failure return of _IntVecAlloc(), called with interrupts locked by
\* the caller, while another task is inside a call.
C10_Witness ==
    /\ task[1].pc = "return"
    /\ task[1].fn = "_IntVecAlloc"
    /\ task[1].ret = -1
    /\ task[1].locks = 1
    /\ task[1].callerLocked
    /\ task[2].pc = "markf_lock"

(***************************************************************************)
(* Properties of irq_connect(), for one caller (SpecConnect)               *)
(***************************************************************************)

\* The stub as the processor reads it: the 32-bit little-endian value at an
\* offset, and the target of the call or jmp at an offset (its displacement
\* is relative to the next instruction).
Written(mem, at, len) == at..(at + len - 1) \subseteq DOMAIN mem

Read32(mem, at) ==
    Word32((mem[at + 3] * 256) + mem[at + 2], (mem[at + 1] * 256) + mem[at])

BranchTarget(mem, t, at) == Add32(Read32(mem, at + 1), StubAddr(t, at + 5))

Instr(op, v) == [op |-> op, v |-> v]

\* The instructions of the stub of task t from offset <at> up to its jmp.
RECURSIVE Decode(_, _, _)
Decode(mem, t, at) ==
    IF ~Written(mem, at, 3) \/ at >= _INT_STUB_SIZE
      THEN <<Instr("none", at)>>
      ELSE CASE mem[at] = IA32_CALL_OPCODE /\ Written(mem, at, 5) ->
                  <<Instr("call", BranchTarget(mem, t, at))>>
                      \o Decode(mem, t, at + 5)
             [] mem[at] = IA32_PUSH_OPCODE /\ Written(mem, at, 5) ->
                  <<Instr("push", Read32(mem, at + 1))>>
                      \o Decode(mem, t, at + 5)
             [] /\ mem[at] = IA32_ADD_OPCODE % 256
                /\ mem[at + 1] = IA32_ADD_OPCODE \div 256 ->
                  <<Instr("add", mem[at + 2])>> \o Decode(mem, t, at + 3)
             [] mem[at] = IA32_JMP_OPCODE /\ Written(mem, at, 5) ->
                  <<Instr("jmp", BranchTarget(mem, t, at))>>
             [] OTHER -> <<Instr("none", at)>>

\* The callout part of a stub: nothing, a call, or a push and a call.
CalloutPart(supported, rtn, paramRequired, parm) ==
    IF ~supported \/ rtn = NULL
      THEN <<>>
      ELSE IF paramRequired # 0
             THEN <<Instr("push", parm), Instr("call", rtn)>>
             ELSE <<Instr("call", rtn)>>

\* The stub that the module header describes for the call with frame cx.
FullStub(cx) ==
    LET boi == CalloutPart(CONFIG_BOI_HANDLER_SUPPORTED, cx.boiRtn,
                           cx.boiParamRequired, cx.boiRtnParm)
        eoi == CalloutPart(CONFIG_EOI_HANDLER_SUPPORTED, cx.eoiRtn,
                           cx.eoiParamRequired, cx.eoiRtnParm)
        pushes == (1 + (Len(boi) \div 2)) + (Len(eoi) \div 2)
    IN  <<Instr("call", _IntEnt)>> \o boi
          \o <<Instr("push", cx.parameter), Instr("call", cx.routine)>>
          \o eoi
          \o <<Instr("add", 4 * pushes), Instr("jmp", _IntExit)>>

\* Position of irq_connect(): before the first stub byte, while the stub is
\* being written, after the descriptor is installed.
BeforeStub ==
    {"connect_sysalloc", "alloc_check", "alloc_lock", "alloc_scan",
     "alloc_fail", "alloc_clear", "alloc_unlock", "alloc_vector", "return",
     "connect_check"}

DuringStub ==
    {"connect_entry", "connect_boi", "connect_isr", "connect_eoi",
     "connect_add", "connect_jmp"}

AfterInstall == {"connect_return", "connect_done"}

\* The call of task 1 has written neither stub byte nor IDT entry.
NothingWritten ==
    /\ task[1].cx.stubWrites = 0
    /\ task[1].cx.idtWrites = 0
    /\ stubMem[1] = task[1].cx.preStub
    /\ idt = task[1].cx.preIdt

\* What C7 says of a call for which _SysIntVecAlloc() has returned -1.
FailsAtomically ==
    /\ NothingWritten
    /\ task[1].pc \notin DuringStub
    /\ task[1].pc = "connect_done" => task[1].ret = -1

BoardFailed ==
    /\ task[1].cx.active
    /\ task[1].pc \notin BeforeStub \ {"connect_check"}
    /\ task[1].cx.vector = -1

\* C7 as stated: in every build, once _SysIntVecAlloc() has returned -1,
\* irq_connect() writes no stub byte and no IDT entry, and returns -1.
C7_AsStated == BoardFailed => FailsAtomically

\* C7, amended: in a DEBUG build, once _SysIntVecAlloc() has returned -1,
\* irq_connect() writes no stub byte and no IDT entry, and returns -1.
C7_FailsAtomically == (DEBUG /\ BoardFailed) => FailsAtomically

C7_Witness ==
    /\ DEBUG
    /\ BoardFailed
    /\ task[1].pc = "connect_done"
    /\ task[1].ret = -1
    /\ CONFIG_BOI_HANDLER_SUPPORTED
    /\ task[1].cx.boiRtn # NULL
    /\ task[1].cx.priority = 3

\* C8: in an irq_connect() call for which _SysIntVecAlloc() returns a vector
\* (not -1), no stub byte and no IDT entry is written before
\* _SysIntVecAlloc() has returned, no IDT entry is written before the stub
\* is complete up to the displacement of its jmp to _IntExit, exactly one
\* IDT entry is written, the one of the vector that _SysIntVecAlloc()
\* returned, with dpl 0 and the address of the first byte of the stub
\* buffer as its routine, and irq_connect() returns that vector.
C8_Order ==
    LET cx   == task[1].cx
        pc   == task[1].pc
        done == Written(stubMem[1], 0, cx.offsetAdjust + 5)
                  /\ cx.stubWrites = cx.offsetAdjust + 5
                  /\ Decode(stubMem[1], 1, cx.offsetAdjust)
                        = <<Instr("jmp", _IntExit)>>
    IN  cx.active =>
          /\ pc \in BeforeStub => NothingWritten
          /\ pc \in DuringStub =>
                cx.idtWrites = 0 /\ idt = cx.preIdt
          /\ (pc = "connect_vecset" /\ cx.vector # -1) =>
                done /\ cx.idtWrites = 0 /\ idt = cx.preIdt
          /\ (pc \in AfterInstall /\ cx.vector # -1) =>
                /\ done
                /\ cx.idtWrites = 1
                /\ ~StrayIdtWrite(cx.vector)
                /\ idt = ((8 * cx.vector) :>
                            [routine |-> pIntStubMem(1), dpl |-> 0])
                         @@ cx.preIdt
          /\ (pc = "connect_done" /\ cx.vector # -1) => task[1].ret = cx.vector

C8_Witness ==
    /\ task[1].pc = "connect_done"
    /\ task[1].cx.vector = 63
    /\ task[1].ret = 63
    /\ task[1].cx.offsetAdjust = 33
    /\ DOMAIN idt = {504}
    /\ idt[504].routine = pIntStubMem(1)

(***************************************************************************)
(* Properties of irq_connect() under concurrent callers (SpecRace)         *)
(***************************************************************************)

\* Both tasks have come to the end of an irq_connect() call.
BothDone == \A t \in Tasks : task[t].pc = "connect_done"

\* What C9 says of the two calls: the vectors differ, the IDT entry of each
\* vector holds the address of the caller's own buffer, and each buffer
\* holds the whole stub of its own call.
RaceSafe ==
    /\ task[1].ret # task[2].ret
    /\ \A t \in Tasks :
          /\ (8 * task[t].ret) \in DOMAIN idt
          /\ idt[8 * task[t].ret] = [routine |-> pIntStubMem(t), dpl |-> 0]
          /\ Decode(stubMem[t], t, 0) = FullStub(task[t].cx)

\* C9 as stated: in every build, two irq_connect() calls that both return
\* a vector (not the failure value -1) return different vectors, with the
\* IDT entries and the buffers as above.
C9_AsStated ==
    (BothDone /\ \A t \in Tasks : task[t].ret # -1) => RaceSafe

\* The vector that the call of task t returns lies in the entry of
\* _VectorsAllocated[] that _IntVecAlloc() scans for the priority.
InScannedEntry(t) == (task[t].ret \div 32) = (task[t].cx.priority \div 2)

\* C9, amended: two irq_connect() calls that both return a vector of the
\* entry scanned for their priority, as every call does that finds a set
\* bit in that entry, return different vectors, the IDT entry of each
\* vector holds the address of the caller's own buffer, and each buffer
\* holds the whole stub of its own call.
C9_RaceSafe ==
    (BothDone /\ \A t \in Tasks : InScannedEntry(t)) => RaceSafe

\* Two calls that both entered _IntVecAlloc() before either cleared a bit.
C9_Witness ==
    /\ BothDone
    /\ task[1].cx.priority = 2 /\ task[2].cx.priority = 2
    /\ task[1].ret = 33
    /\ task[2].ret = 32
    /\ task[1].cx.preIdt = task[2].cx.preIdt
    /\ task[1].cx.boiRtn # task[2].cx.boiRtn

\* One task calls the allocator routines, any number of times, in kernels
\* configured with IDTs of several sizes, multiples of 16 or not.
SizedIdts == {31, 40, 47, 64}
SizedPriorities == {1, 2}
SizedMarkVectors == {30}

InitSized ==
    /\ CONFIG_IDT_NUM_VECTORS \in SizedIdts
    /\ \E debug \in BOOLEAN : Boot(debug, FALSE, FALSE)
    /\ _VectorsAllocated = AllOnes
    /\ reserved = {}

SizedCall(t) ==
    \/ \E p \in SizedPriorities : Call_IntVecAlloc(t, p, FALSE)
    \/ \E v \in SizedMarkVectors : Call_IntVecMarkAllocated(t, v, FALSE)
    \/ \E v \in SizedMarkVectors : Call_IntVecMarkFree(t, v, FALSE)

NextSized ==
    /\ \/ SizedCall(1)
       \/ AllocatorStep(1)
       \/ Return(1) /\ hist' = Completed(1)
    /\ UNCHANGED calls

SpecSized == InitSized /\ [][NextSized]_vars

\* Task 2 calls _IntVecSet() itself, at most MaxVecSets times, for vectors
\* inside the IDT, while task 1 calls irq_connect(), at most MaxConnects
\* times, on a board without callouts; task 2 runs whenever task 1 has not
\* locked interrupts.
MaxVecSets == 2

VecSetVectors == {40, 63}
PrivilegeLevels == {0, 3}

InitVecSet ==
    /\ CONFIG_IDT_NUM_VECTORS \in IdtSizes
    /\ \E debug \in BOOLEAN : Boot(debug, FALSE, FALSE)
    /\ _VectorsAllocated = AllOnes
    /\ reserved = {}

VecSetCall(t) ==
    /\ calls[t] < MaxVecSets
    /\ \E v \in VecSetVectors, r \in Routines, d \in PrivilegeLevels :
          Call_IntVecSet(t, v, r, d)
    /\ calls' = [calls EXCEPT ![t] = @ + 1]

VecSetConnect(t) ==
    /\ calls[t] < MaxConnects
    /\ \E p \in ConcPriorities, a \in Parameters :
          Call_irq_connect(t, p, RaceRoutine(t), a)
    /\ calls' = [calls EXCEPT ![t] = @ + 1]

VecSetBoard(t) ==
    \E fail \in BOOLEAN : _SysIntVecAlloc(t, fail, NULL, 0, NULL, 0)

VecSetStep(t) ==
    /\ \/ VecSetBoard(t)
       \/ _IntVecAlloc(t)
       \/ irq_connect(t)
       \/ ConnectDone(t)
    /\ UNCHANGED calls

NextVecSet == VecSetCall(2) \/ VecSetConnect(1) \/ VecSetStep(1)

SpecVecSet == InitVecSet /\ [][NextVecSet]_vars

(***************************************************************************)
(* Properties of the synthesized stub (SpecConnect)                        *)
(***************************************************************************)

\* The call of task 1 has written its stub up to the jmp to _IntExit.
StubComplete ==
    /\ task[1].cx.active
    /\ \/ task[1].pc \in {"connect_vecset", "connect_return"}
       \/ task[1].pc = "connect_done" /\ task[1].cx.stubWrites > 0

\* 1 if the callout block is emitted with a push of its parameter, else 0.
PushesParameter(supported, rtn, paramRequired) ==
    IF supported /\ rtn # NULL /\ paramRequired # 0 THEN 1 ELSE 0

\* The number of push instructions in a sequence of instructions.
Pushes(instrs) == Cardinality({i \in DOMAIN instrs : instrs[i].op = "push"})

\* C11: in every stub that irq_connect() has completed, the immediate
\* operand of the addl to %esp (the byte before the jmp to _IntExit) is
\* 4 * (1 + [BOI callout emitted and needs a parameter] + [EOI callout
\* emitted and needs a parameter]), which is 4 times the number of push
\* instructions in the stub.
C11_CleanupImmediate ==
    StubComplete =>
        LET cx  == task[1].cx
            imm == stubMem[1][cx.offsetAdjust - 1]
        IN  /\ imm = 4 * ((1 + PushesParameter(CONFIG_BOI_HANDLER_SUPPORTED,
                                               cx.boiRtn, cx.boiParamRequired))
                            + PushesParameter(CONFIG_EOI_HANDLER_SUPPORTED,
                                              cx.eoiRtn, cx.eoiParamRequired))
            /\ imm = 4 * Pushes(Decode(stubMem[1], 1, 0))

\* A stub with a BOI callout that takes a parameter and an EOI callout
\* that takes none: two pushes.
C11_Witness ==
    /\ StubComplete
    /\ CONFIG_BOI_HANDLER_SUPPORTED /\ CONFIG_EOI_HANDLER_SUPPORTED
    /\ task[1].cx.boiRtn # NULL /\ task[1].cx.boiParamRequired = 1
    /\ task[1].cx.eoiRtn # NULL /\ task[1].cx.eoiParamRequired = 0
    /\ stubMem[1][task[1].cx.offsetAdjust - 1] = 8

IsBranch(instr) == instr.op \in {"call", "jmp"}

\* The addresses that the calls and the jmp of a stub transfer control to:
\* for each, its 32-bit displacement added modulo 2^32 to the address of
\* the byte after its operand.
BranchTargets(mem, t) ==
    LET branches == SelectSeq(Decode(mem, t, 0), IsBranch)
    IN  [i \in DOMAIN branches |-> branches[i].v]

\* The routine of a callout block, if the block is emitted.
CalloutTarget(supported, rtn) ==
    IF supported /\ rtn # NULL THEN <<rtn>> ELSE <<>>

\* C12: in every stub that irq_connect() has completed, the displacement of
\* each call and of the final jmp, added modulo 2^32 to the address of the
\* byte that follows its 4-byte operand, is the address of its target:
\* _IntEnt, the BOI routine (if emitted), the ISR, the EOI routine (if
\* emitted) and _IntExit, in this order.
C12_Displacements ==
    StubComplete =>
        BranchTargets(stubMem[1], 1) =
            <<_IntEnt>>
              \o CalloutTarget(CONFIG_BOI_HANDLER_SUPPORTED, task[1].cx.boiRtn)
              \o <<task[1].cx.routine>>
              \o CalloutTarget(CONFIG_EOI_HANDLER_SUPPORTED, task[1].cx.eoiRtn)
              \o <<_IntExit>>

\* A stub whose ISR lies above 0x80000000 (the displacement wraps) and
\* whose callouts lie below the buffer (negative displacements).
C12_Witness ==
    /\ StubComplete
    /\ task[1].cx.routine = -1073741824
    /\ Len(BranchTargets(stubMem[1], 1)) = 5
    /\ Read32(stubMem[1], 1) = Sub32(_IntEnt, StubAddr(1, 5))
    /\ stubMem[1][4] = 255

\* The number of bytes of a sequence of instructions.
RECURSIVE StubLength(_)
StubLength(instrs) ==
    IF instrs = <<>>
      THEN 0
      ELSE (IF Head(instrs).op = "add" THEN 3 ELSE 5) + StubLength(Tail(instrs))

\* C13: every stub that irq_connect() has completed is, byte for byte from
\* offset 0, the sequence call _IntEnt; the BOI block (push parameter and
\* call, or call only, or nothing); push ISR parameter; call ISR; the EOI
\* block (likewise); addl to %esp; and last a jmp (not a call) to _IntExit.
\* When no callout is emitted it is call _IntEnt; push parameter;
\* call routine; addl $4, %esp; jmp _IntExit.
C13_StubSequence ==
    StubComplete =>
        LET cx    == task[1].cx
            stub  == Decode(stubMem[1], 1, 0)
            plain == <<Instr("call", _IntEnt), Instr("push", cx.parameter),
                       Instr("call", cx.routine), Instr("add", 4),
                       Instr("jmp", _IntExit)>>
        IN  /\ stub = FullStub(cx)
            /\ stub[Len(stub)].op = "jmp"
            /\ cx.stubWrites = StubLength(stub)
            /\ StubLength(stub) = cx.offsetAdjust + 5
            /\ ( /\ PushesParameter(CONFIG_BOI_HANDLER_SUPPORTED, cx.boiRtn, 1) = 0
                 /\ PushesParameter(CONFIG_EOI_HANDLER_SUPPORTED, cx.eoiRtn, 1) = 0 )
                  => stub = plain

\* The stub of a build without BOI and EOI support, for a board that
\* reports callouts.
C13_Witness ==
    /\ StubComplete
    /\ ~CONFIG_BOI_HANDLER_SUPPORTED /\ ~CONFIG_EOI_HANDLER_SUPPORTED
    /\ task[1].cx.boiRtn # NULL /\ task[1].cx.eoiRtn # NULL
    /\ Len(Decode(stubMem[1], 1, 0)) = 5
    /\ DOMAIN stubMem[1] = 0..22

\* irq_connect() passes the place of the BOI block.
PassesBoi == task[1].pc = "connect_boi" /\ task'[1].pc = "connect_isr"

\* irq_connect() passes the place of the EOI block.
PassesEoi == task[1].pc = "connect_eoi" /\ task'[1].pc = "connect_add"

\* Nothing is emitted and no parameter is counted.
NothingEmitted ==
    /\ stubMem' = stubMem
    /\ task'[1].cx = task[1].cx

\* C14: when BOI (or EOI) support is compiled in but the board code gave
\* a null routine, irq_connect() emits no byte and counts no parameter for
\* that callout, whatever its needs-parameter flag says; when the support
\* is compiled out, nothing is emitted or counted even for a non-null
\* routine pointer.
C14_NoCallout ==
    [][ /\ ( PassesBoi /\ ( \/ ~CONFIG_BOI_HANDLER_SUPPORTED
                            \/ task[1].cx.boiRtn = NULL ) ) => NothingEmitted
        /\ ( PassesEoi /\ ( \/ ~CONFIG_EOI_HANDLER_SUPPORTED
                            \/ task[1].cx.eoiRtn = NULL ) ) => NothingEmitted
      ]_vars

\* Past the EOI block with EOI compiled in, a null EOI routine flagged as
\* needing a parameter, in a build without BOI support whose board gave a
\* BOI routine that needs a parameter: the stub so far is call; push; call.
C14_Witness ==
    /\ task[1].cx.active
    /\ task[1].pc = "connect_add"
    /\ CONFIG_EOI_HANDLER_SUPPORTED
    /\ task[1].cx.eoiRtn = NULL /\ task[1].cx.eoiParamRequired = 1
    /\ ~CONFIG_BOI_HANDLER_SUPPORTED
    /\ task[1].cx.boiRtn # NULL /\ task[1].cx.boiParamRequired = 1
    /\ task[1].cx.numParameters = 1
    /\ task[1].cx.offsetAdjust = 15
    /\ DOMAIN stubMem[1] = 0..14

\* C15: whatever callouts the board code reports and whether they need
\* a parameter, irq_connect() never writes more than _INT_STUB_SIZE (43)
\* bytes into the stub buffer, and every byte it writes is at an offset
\* in [0, 43).
C15_StubSize ==
    /\ DOMAIN stubMem[1] \subseteq 0..(_INT_STUB_SIZE - 1)
    /\ task[1].cx.active =>
          /\ task[1].cx.stubWrites <= _INT_STUB_SIZE
          /\ task[1].cx.offsetAdjust <= _INT_STUB_SIZE

\* The full stub: both callouts with parameters, written up to the last
\* byte of the buffer.
C15_Witness ==
    /\ StubComplete
    /\ task[1].cx.boiParamRequired = 1 /\ task[1].cx.eoiParamRequired = 1
    /\ task[1].cx.stubWrites = _INT_STUB_SIZE
    /\ DOMAIN stubMem[1] = 0..42
    /\ stubMem[1][38] = IA32_JMP_OPCODE

(***************************************************************************)
(* Properties of _IntVecSet() (SpecVecSet)                                 *)
(***************************************************************************)

\* The step is the store of _IntVecSet(vector, routine, dpl), called by
\* task 2 or by irq_connect() in task 1.
IntVecSetStore(vector, routine, dpl) ==
    \/ /\ task' = task
       /\ hist'.arg = vector
       /\ Call_IntVecSet(2, vector, routine, dpl)
    \/ /\ task[1].pc = "connect_vecset"
       /\ vector = task[1].cx.vector
       /\ routine = pIntStubMem(1)
       /\ dpl = 0
       /\ irq_connect_IntVecSet(1)

\* What every step that is a store of _IntVecSet() satisfies: task 2 stays
\* idle, or irq_connect() is at its call of _IntVecSet().
AtIntVecSet == task' = task \/ task[1].pc = "connect_vecset"

\* The store overwrites exactly the table entry at offset vector * 8 with
\* a descriptor of routine and dpl; every other entry and the bitfield are
\* left as they were.
OnlyEntryWritten(vector, routine, dpl) ==
    /\ (vector * 8) \in IdtOffsets
    /\ DOMAIN idt' = DOMAIN idt \cup {vector * 8}
    /\ idt'[vector * 8] = [routine |-> routine, dpl |-> dpl]
    /\ \A o \in DOMAIN idt : o # (vector * 8) => idt'[o] = idt[o]
    /\ _VectorsAllocated' = _VectorsAllocated

\* The vectors, routines and privilege levels _IntVecSet() is called with.
StoredVectors == VecSetVectors \cup {-1, 47, 63}
StoredRoutines == Routines \cup {pIntStubMem(1)}

\* C16 as stated: every _IntVecSet(vector, routine, dpl) overwrites exactly
\* the table entry at offset vector * 8 with a descriptor of routine and
\* dpl and leaves every other entry and the bitfield unchanged.
C16_AsStated ==
    [][ AtIntVecSet =>
          \A v \in StoredVectors, r \in StoredRoutines, d \in PrivilegeLevels :
             IntVecSetStore(v, r, d) => OnlyEntryWritten(v, r, d) ]_vars

\* C16: for every vector less than CONFIG_IDT_NUM_VECTORS,
\* _IntVecSet(vector, routine, dpl) overwrites exactly the table entry at
\* offset vector * 8 (vector 40: offset 320) with a descriptor of routine
\* and dpl, and leaves every other table entry and the vector bitfield
\* unchanged.
C16_OnlyEntryWritten ==
    [][ AtIntVecSet =>
          \A v \in StoredVectors, r \in StoredRoutines, d \in PrivilegeLevels :
             ( /\ v \in 0..(CONFIG_IDT_NUM_VECTORS - 1)
               /\ IntVecSetStore(v, r, d) ) => OnlyEntryWritten(v, r, d) ]_vars

\* _IntVecSet(40, routine, 3) has just written the entry at offset 320,
\* next to the entry of vector 63 that irq_connect() installed after
\* _IntVecAlloc() cleared the bit of 63.
C16_Witness ==
    /\ hist = [fn |-> "_IntVecSet", arg |-> 40, ret |-> 0]
    /\ DOMAIN idt = {320, 504}
    /\ idt[320] = [routine |-> -1073741824, dpl |-> 3]
    /\ idt[504] = [routine |-> pIntStubMem(1), dpl |-> 0]
    /\ ~IsFree(_VectorsAllocated, 63)
    /\ calls[2] = 1

(***************************************************************************)
(* Properties that depend on the size of the IDT (SpecSized)               *)
(***************************************************************************)

\* No routine of the module has been called yet.
Pristine == hist = NoCall /\ task[1] = IdleTask

\* The least k with 32 * k >= n.
Ceil32(n) == CHOOSE k \in 0..n : (32 * k) >= n /\ (32 * (k - 1)) < n

\* C19: before any operation the bitfield has ceil(N / 32) words, every
\* bit of every word is 1, and so every vector in [0, N) is free.
C19_InitiallyFree ==
    Pristine =>
        /\ DOMAIN _VectorsAllocated = 0..(Ceil32(CONFIG_IDT_NUM_VECTORS) - 1)
        /\ \A w \in DOMAIN _VectorsAllocated :
               _VectorsAllocated[w] = BitPositions
        /\ \A v \in 0..(CONFIG_IDT_NUM_VECTORS - 1) :
               /\ (v \div 32) \in DOMAIN _VectorsAllocated
               /\ IsFree(_VectorsAllocated, v)

\* The initial state of a kernel with 40 vectors: two words, the second
\* one with all 32 bits set.
C19_Witness ==
    /\ Pristine
    /\ CONFIG_IDT_NUM_VECTORS = 40
    /\ DOMAIN _VectorsAllocated = {0, 1}
    /\ IsFree(_VectorsAllocated, 39)
    /\ _VectorsAllocated[1] = BitPositions

\* C20 as stated: in a DEBUG build, for every CONFIG_IDT_NUM_VECTORS and
\* every priority that passes the range check, every vector that
\* _IntVecAlloc() returns lies in [0, CONFIG_IDT_NUM_VECTORS).
C20_AsStated ==
    (DEBUG /\ Returning("_IntVecAlloc") /\ task[1].ret # -1) =>
        task[1].ret \in 0..(CONFIG_IDT_NUM_VECTORS - 1)

(***************************************************************************)
(* The bitfield as a set of free vectors (Spec)                            *)
(***************************************************************************)

\* The vectors whose most recent state-changing operation was a
\* _IntVecAlloc() that returned them or a _IntVecMarkAllocated().
AbstractAllocated == held \cup reserved

\* C21: in a DEBUG build, after any sequence of _IntVecAlloc(),
\* _IntVecMarkAllocated() and _IntVecMarkFree() calls, the bit of v is 0
\* exactly when the most recent state-changing operation on v was a
\* _IntVecAlloc() that returned v or a _IntVecMarkAllocated(v); and each
\* call changes at most one bit of one word, the bit of the vector it
\* returned or was given (a failed _IntVecAlloc() changes none).
C21_Refinement ==
    DEBUG =>
        /\ \A v \in 0..((32 * VEC_ALLOC_NUM_INTS) - 1) :
               ~IsFree(_VectorsAllocated, v) <=> v \in AbstractAllocated
        /\ Returning("_IntVecAlloc") =>
               IF task[1].ret = -1
                 THEN _VectorsAllocated = task[1].pre
                 ELSE OthersKept(task[1].ret)
        /\ (Returning("_IntVecMarkAllocated") \/ Returning("_IntVecMarkFree"))
               => OthersKept(task[1].arg)

\* In a DEBUG build _IntVecMarkFree(62) returns, having set the bit of 62,
\* while 63, handed out by _IntVecAlloc(3), and 31, marked by
\* _IntVecMarkAllocated(31), have their bits clear.
C21_Witness ==
    /\ DEBUG
    /\ Returning("_IntVecMarkFree")
    /\ task[1].arg = 62
    /\ ~IsFree(task[1].pre, 62)
    /\ IsFree(_VectorsAllocated, 62)
    /\ 63 \in held /\ ~IsFree(_VectorsAllocated, 63)
    /\ 31 \in reserved /\ ~IsFree(_VectorsAllocated, 31)
    /\ AbstractAllocated = {31, 63}

\* The priority passes the range check of a DEBUG build.
PassesCheck(priority) == ((16 * priority) + 15) <= CONFIG_IDT_NUM_VECTORS

\* C22: in a DEBUG build, _IntVecAlloc(p) for a priority p that passes the
\* range check returns a vector of [16p, 16p + 16) that was free whenever
\* at least one vector of that range is free, however many vectors of the
\* other half of the entry are free; it returns -1 only when all 16
\* vectors of p are allocated.
C22_FailsOnlyWhenFull ==
    (DEBUG /\ Returning("_IntVecAlloc") /\ PassesCheck(task[1].arg)) =>
        LET free == FreeVectors(task[1].pre, task[1].arg)
        IN  /\ free # {} => task[1].ret \in free
            /\ task[1].ret = -1 => free = {}
            /\ task[1].ret # -1 => free # {}

\* In a DEBUG build _IntVecAlloc(3) returns 62, the only free vector of
\* priority 3, while no vector of priority 2, the other half of the entry,
\* is free.
C22_Witness ==
    /\ DEBUG
    /\ Returning("_IntVecAlloc")
    /\ task[1].arg = 3
    /\ task[1].ret = 62
    /\ FreeVectors(task[1].pre, 3) = {62}
    /\ FreeVectors(task[1].pre, 2) = {}

=============================================================================
